---- MODULE Spec2Model ----
(***************************************************************************)
(* Photo-Resizer: the /upload handler (upload_and_process) and the core    *)
(* transform (resize_and_compress_image) of app.py; api/index.py carries   *)
(* the same core line for line.                                            *)
(*                                                                         *)
(* Units.  max_size_kb is a Python float; the model holds it as nan, an     *)
(* infinity or the double itself (see "Python floats").  current_size_kb   *)
(* is output_buffer.tell() / 1024; the model holds the byte count n that   *)
(* stands for n / 1024, and compares the double n / 1024 with max_size_kb. *)
(* final_size_kb = round(n / 1024, 2) is held in hundredths.               *)
(*                                                                         *)
(* Images.  An image is its size, its Pillow mode and one representative   *)
(* pixel of a uniformly coloured picture: the colour the pixel denotes     *)
(* (after palette lookup for P) and its alpha (255 where the mode carries  *)
(* no transparency).  The JPEG encoder is a pure function of the           *)
(* normalized image and the quality; the model draws its size function     *)
(* from a bounded family and names an encoding by the image and quality it *)
(* was made from.                                                          *)
(***************************************************************************)
EXTENDS Integers, Sequences, FiniteSets, TLC

\* ------------------------------------------------------------------------
\* Bounds of the model
\* ------------------------------------------------------------------------
\* direct invocations of the core take initial_quality from this far below 1
\* to this far above 100
QualityMargin == 2
\* the encoder's size function changes level at one of these qualities
MaxThreshold == 2
\* invocations of the core that run in parallel, and calls each of them makes
NumProcs == 2
MaxCalls == 2

\* ------------------------------------------------------------------------
\* Program constants
\* ------------------------------------------------------------------------
QualityStep == 5
QualityFloor == 5
MaxDimension == 5000
MaxSizeLimitKb == 10240
DefaultWidth == 200
DefaultHeight == 200
DefaultMaxSizeKb == 50
DefaultQuality == 80
ALLOWED_EXTENSIONS == { <<"j","p","g">>, <<"j","p","e","g">>, <<"p","n","g">> }

\* ------------------------------------------------------------------------
\* Text: a string is a sequence of characters.  A printable ASCII character
\* is the one-character string; any other character is written by its code
\* point ("U+00A0").
\* ------------------------------------------------------------------------
Digits == {"0","1","2","3","4","5","6","7","8","9"}
AsciiDigit == <<"0","1","2","3","4","5","6","7","8","9">>

DigitVal(c) ==
    CASE c = "0" -> 0 [] c = "1" -> 1 [] c = "2" -> 2 [] c = "3" -> 3
      [] c = "4" -> 4 [] c = "5" -> 5 [] c = "6" -> 6 [] c = "7" -> 7
      [] c = "8" -> 8 [] c = "9" -> 9

AllDigits(s) == \A i \in 1..Len(s) : s[i] \in Digits

\* the sequence f itself, with its elements computed once
Elements(f) == SubSeq(f, 1, Len(f))

Unsigned(s) == IF s # <<>> /\ s[1] \in {"-", "+"} THEN Tail(s) ELSE s
Sign(s) == IF s # <<>> /\ s[1] = "-" THEN -1 ELSE 1

\* str.lower() on ASCII letters
LowerChar(c) ==
    CASE c = "A" -> "a" [] c = "B" -> "b" [] c = "C" -> "c" [] c = "D" -> "d"
      [] c = "E" -> "e" [] c = "F" -> "f" [] c = "G" -> "g" [] c = "H" -> "h"
      [] c = "I" -> "i" [] c = "J" -> "j" [] c = "K" -> "k" [] c = "L" -> "l"
      [] c = "M" -> "m" [] c = "N" -> "n" [] c = "O" -> "o" [] c = "P" -> "p"
      [] c = "Q" -> "q" [] c = "R" -> "r" [] c = "S" -> "s" [] c = "T" -> "t"
      [] c = "U" -> "u" [] c = "V" -> "v" [] c = "W" -> "w" [] c = "X" -> "x"
      [] c = "Y" -> "y" [] c = "Z" -> "z" [] OTHER -> c

Lower(s) == Elements([i \in 1..Len(s) |-> LowerChar(s[i])])

\* position of the last "." of s, 0 when there is none
LastDot(s) ==
    IF \E i \in 1..Len(s) : s[i] = "."
    THEN CHOOSE i \in 1..Len(s) :
            s[i] = "." /\ \A j \in (i+1)..Len(s) : s[j] # "."
    ELSE 0

\* '.' in filename and filename.rsplit('.', 1)[1].lower() in ALLOWED_EXTENSIONS
allowed_file(filename) ==
    /\ LastDot(filename) # 0
    /\ Lower(SubSeq(filename, LastDot(filename) + 1, Len(filename)))
          \in ALLOWED_EXTENSIONS

\* ------------------------------------------------------------------------
\* int(text) and float(text)
\* ------------------------------------------------------------------------
\* the white space that int() and float() strip from both ends of the text
Whitespace ==
    { " ", "U+0009", "U+000A", "U+000B", "U+000C", "U+000D",
      "U+0085", "U+00A0", "U+1680", "U+2000", "U+2001", "U+2002",
      "U+2003", "U+2004", "U+2005", "U+2006", "U+2007", "U+2008",
      "U+2009", "U+200A", "U+2028", "U+2029", "U+202F", "U+205F",
      "U+3000" }

\* the decimal digits outside ASCII (Unicode category Nd), one script per
\* row, in the order of their values 0..9; int() and float() read each of
\* them as the ASCII digit of the same value
DecimalDigits ==
    { <<"U+0660","U+0661","U+0662","U+0663","U+0664","U+0665","U+0666","U+0667","U+0668","U+0669">>,
      <<"U+06F0","U+06F1","U+06F2","U+06F3","U+06F4","U+06F5","U+06F6","U+06F7","U+06F8","U+06F9">>,
      <<"U+07C0","U+07C1","U+07C2","U+07C3","U+07C4","U+07C5","U+07C6","U+07C7","U+07C8","U+07C9">>,
      <<"U+0966","U+0967","U+0968","U+0969","U+096A","U+096B","U+096C","U+096D","U+096E","U+096F">>,
      <<"U+09E6","U+09E7","U+09E8","U+09E9","U+09EA","U+09EB","U+09EC","U+09ED","U+09EE","U+09EF">>,
      <<"U+0A66","U+0A67","U+0A68","U+0A69","U+0A6A","U+0A6B","U+0A6C","U+0A6D","U+0A6E","U+0A6F">>,
      <<"U+0AE6","U+0AE7","U+0AE8","U+0AE9","U+0AEA","U+0AEB","U+0AEC","U+0AED","U+0AEE","U+0AEF">>,
      <<"U+0B66","U+0B67","U+0B68","U+0B69","U+0B6A","U+0B6B","U+0B6C","U+0B6D","U+0B6E","U+0B6F">>,
      <<"U+0BE6","U+0BE7","U+0BE8","U+0BE9","U+0BEA","U+0BEB","U+0BEC","U+0BED","U+0BEE","U+0BEF">>,
      <<"U+0C66","U+0C67","U+0C68","U+0C69","U+0C6A","U+0C6B","U+0C6C","U+0C6D","U+0C6E","U+0C6F">>,
      <<"U+0CE6","U+0CE7","U+0CE8","U+0CE9","U+0CEA","U+0CEB","U+0CEC","U+0CED","U+0CEE","U+0CEF">>,
      <<"U+0D66","U+0D67","U+0D68","U+0D69","U+0D6A","U+0D6B","U+0D6C","U+0D6D","U+0D6E","U+0D6F">>,
      <<"U+0DE6","U+0DE7","U+0DE8","U+0DE9","U+0DEA","U+0DEB","U+0DEC","U+0DED","U+0DEE","U+0DEF">>,
      <<"U+0E50","U+0E51","U+0E52","U+0E53","U+0E54","U+0E55","U+0E56","U+0E57","U+0E58","U+0E59">>,
      <<"U+0ED0","U+0ED1","U+0ED2","U+0ED3","U+0ED4","U+0ED5","U+0ED6","U+0ED7","U+0ED8","U+0ED9">>,
      <<"U+0F20","U+0F21","U+0F22","U+0F23","U+0F24","U+0F25","U+0F26","U+0F27","U+0F28","U+0F29">>,
      <<"U+1040","U+1041","U+1042","U+1043","U+1044","U+1045","U+1046","U+1047","U+1048","U+1049">>,
      <<"U+1090","U+1091","U+1092","U+1093","U+1094","U+1095","U+1096","U+1097","U+1098","U+1099">>,
      <<"U+17E0","U+17E1","U+17E2","U+17E3","U+17E4","U+17E5","U+17E6","U+17E7","U+17E8","U+17E9">>,
      <<"U+1810","U+1811","U+1812","U+1813","U+1814","U+1815","U+1816","U+1817","U+1818","U+1819">>,
      <<"U+1946","U+1947","U+1948","U+1949","U+194A","U+194B","U+194C","U+194D","U+194E","U+194F">>,
      <<"U+19D0","U+19D1","U+19D2","U+19D3","U+19D4","U+19D5","U+19D6","U+19D7","U+19D8","U+19D9">>,
      <<"U+1A80","U+1A81","U+1A82","U+1A83","U+1A84","U+1A85","U+1A86","U+1A87","U+1A88","U+1A89">>,
      <<"U+1A90","U+1A91","U+1A92","U+1A93","U+1A94","U+1A95","U+1A96","U+1A97","U+1A98","U+1A99">>,
      <<"U+1B50","U+1B51","U+1B52","U+1B53","U+1B54","U+1B55","U+1B56","U+1B57","U+1B58","U+1B59">>,
      <<"U+1BB0","U+1BB1","U+1BB2","U+1BB3","U+1BB4","U+1BB5","U+1BB6","U+1BB7","U+1BB8","U+1BB9">>,
      <<"U+1C40","U+1C41","U+1C42","U+1C43","U+1C44","U+1C45","U+1C46","U+1C47","U+1C48","U+1C49">>,
      <<"U+1C50","U+1C51","U+1C52","U+1C53","U+1C54","U+1C55","U+1C56","U+1C57","U+1C58","U+1C59">>,
      <<"U+A620","U+A621","U+A622","U+A623","U+A624","U+A625","U+A626","U+A627","U+A628","U+A629">>,
      <<"U+A8D0","U+A8D1","U+A8D2","U+A8D3","U+A8D4","U+A8D5","U+A8D6","U+A8D7","U+A8D8","U+A8D9">>,
      <<"U+A900","U+A901","U+A902","U+A903","U+A904","U+A905","U+A906","U+A907","U+A908","U+A909">>,
      <<"U+A9D0","U+A9D1","U+A9D2","U+A9D3","U+A9D4","U+A9D5","U+A9D6","U+A9D7","U+A9D8","U+A9D9">>,
      <<"U+A9F0","U+A9F1","U+A9F2","U+A9F3","U+A9F4","U+A9F5","U+A9F6","U+A9F7","U+A9F8","U+A9F9">>,
      <<"U+AA50","U+AA51","U+AA52","U+AA53","U+AA54","U+AA55","U+AA56","U+AA57","U+AA58","U+AA59">>,
      <<"U+ABF0","U+ABF1","U+ABF2","U+ABF3","U+ABF4","U+ABF5","U+ABF6","U+ABF7","U+ABF8","U+ABF9">>,
      <<"U+FF10","U+FF11","U+FF12","U+FF13","U+FF14","U+FF15","U+FF16","U+FF17","U+FF18","U+FF19">>,
      <<"U+104A0","U+104A1","U+104A2","U+104A3","U+104A4","U+104A5","U+104A6","U+104A7","U+104A8","U+104A9">>,
      <<"U+10D30","U+10D31","U+10D32","U+10D33","U+10D34","U+10D35","U+10D36","U+10D37","U+10D38","U+10D39">>,
      <<"U+11066","U+11067","U+11068","U+11069","U+1106A","U+1106B","U+1106C","U+1106D","U+1106E","U+1106F">>,
      <<"U+110F0","U+110F1","U+110F2","U+110F3","U+110F4","U+110F5","U+110F6","U+110F7","U+110F8","U+110F9">>,
      <<"U+11136","U+11137","U+11138","U+11139","U+1113A","U+1113B","U+1113C","U+1113D","U+1113E","U+1113F">>,
      <<"U+111D0","U+111D1","U+111D2","U+111D3","U+111D4","U+111D5","U+111D6","U+111D7","U+111D8","U+111D9">>,
      <<"U+112F0","U+112F1","U+112F2","U+112F3","U+112F4","U+112F5","U+112F6","U+112F7","U+112F8","U+112F9">>,
      <<"U+11450","U+11451","U+11452","U+11453","U+11454","U+11455","U+11456","U+11457","U+11458","U+11459">>,
      <<"U+114D0","U+114D1","U+114D2","U+114D3","U+114D4","U+114D5","U+114D6","U+114D7","U+114D8","U+114D9">>,
      <<"U+11650","U+11651","U+11652","U+11653","U+11654","U+11655","U+11656","U+11657","U+11658","U+11659">>,
      <<"U+116C0","U+116C1","U+116C2","U+116C3","U+116C4","U+116C5","U+116C6","U+116C7","U+116C8","U+116C9">>,
      <<"U+11730","U+11731","U+11732","U+11733","U+11734","U+11735","U+11736","U+11737","U+11738","U+11739">>,
      <<"U+118E0","U+118E1","U+118E2","U+118E3","U+118E4","U+118E5","U+118E6","U+118E7","U+118E8","U+118E9">>,
      <<"U+11950","U+11951","U+11952","U+11953","U+11954","U+11955","U+11956","U+11957","U+11958","U+11959">>,
      <<"U+11C50","U+11C51","U+11C52","U+11C53","U+11C54","U+11C55","U+11C56","U+11C57","U+11C58","U+11C59">>,
      <<"U+11D50","U+11D51","U+11D52","U+11D53","U+11D54","U+11D55","U+11D56","U+11D57","U+11D58","U+11D59">>,
      <<"U+11DA0","U+11DA1","U+11DA2","U+11DA3","U+11DA4","U+11DA5","U+11DA6","U+11DA7","U+11DA8","U+11DA9">>,
      <<"U+16A60","U+16A61","U+16A62","U+16A63","U+16A64","U+16A65","U+16A66","U+16A67","U+16A68","U+16A69">>,
      <<"U+16AC0","U+16AC1","U+16AC2","U+16AC3","U+16AC4","U+16AC5","U+16AC6","U+16AC7","U+16AC8","U+16AC9">>,
      <<"U+16B50","U+16B51","U+16B52","U+16B53","U+16B54","U+16B55","U+16B56","U+16B57","U+16B58","U+16B59">>,
      <<"U+1D7CE","U+1D7CF","U+1D7D0","U+1D7D1","U+1D7D2","U+1D7D3","U+1D7D4","U+1D7D5","U+1D7D6","U+1D7D7">>,
      <<"U+1D7D8","U+1D7D9","U+1D7DA","U+1D7DB","U+1D7DC","U+1D7DD","U+1D7DE","U+1D7DF","U+1D7E0","U+1D7E1">>,
      <<"U+1D7E2","U+1D7E3","U+1D7E4","U+1D7E5","U+1D7E6","U+1D7E7","U+1D7E8","U+1D7E9","U+1D7EA","U+1D7EB">>,
      <<"U+1D7EC","U+1D7ED","U+1D7EE","U+1D7EF","U+1D7F0","U+1D7F1","U+1D7F2","U+1D7F3","U+1D7F4","U+1D7F5">>,
      <<"U+1D7F6","U+1D7F7","U+1D7F8","U+1D7F9","U+1D7FA","U+1D7FB","U+1D7FC","U+1D7FD","U+1D7FE","U+1D7FF">>,
      <<"U+1E140","U+1E141","U+1E142","U+1E143","U+1E144","U+1E145","U+1E146","U+1E147","U+1E148","U+1E149">>,
      <<"U+1E2F0","U+1E2F1","U+1E2F2","U+1E2F3","U+1E2F4","U+1E2F5","U+1E2F6","U+1E2F7","U+1E2F8","U+1E2F9">>,
      <<"U+1E950","U+1E951","U+1E952","U+1E953","U+1E954","U+1E955","U+1E956","U+1E957","U+1E958","U+1E959">>,
      <<"U+1FBF0","U+1FBF1","U+1FBF2","U+1FBF3","U+1FBF4","U+1FBF5","U+1FBF6","U+1FBF7","U+1FBF8","U+1FBF9">> }

NonAsciiDigits == UNION { { row[k] : k \in 1..10 } : row \in DecimalDigits }

\* the ASCII character int() and float() read in place of c
ToAsciiChar(c) ==
    IF c \in Digits THEN c
    ELSE IF c \in Whitespace THEN " "
    ELSE IF c \in NonAsciiDigits
    THEN LET row == CHOOSE r \in DecimalDigits : \E k \in 1..10 : r[k] = c
         IN AsciiDigit[CHOOSE k \in 1..10 : row[k] = c]
    ELSE c
ToAscii(s) == Elements([i \in 1..Len(s) |-> ToAsciiChar(s[i])])

\* s without the spaces at its two ends
Strip(s) ==
    LET n == Len(s) IN
    IF \A i \in 1..n : s[i] = " " THEN <<>>
    ELSE LET first == CHOOSE i \in 1..n :
                         s[i] # " " /\ \A j \in 1..(i-1) : s[j] = " "
             last == CHOOSE i \in 1..n :
                        s[i] # " " /\ \A j \in (i+1)..n : s[j] = " "
         IN SubSeq(s, first, last)
\* the text of a number as the parser reads it
NumberText(s) == Strip(ToAscii(s))

\* an underscore is allowed between two digits only
UnderscoresOk(s) ==
    \A i \in 1..Len(s) :
        s[i] = "_" => /\ i > 1 /\ i < Len(s)
                      /\ s[i-1] \in Digits /\ s[i+1] \in Digits
NoUnderscores(s) ==
    IF \A i \in 1..Len(s) : s[i] # "_" THEN s
    ELSE SelectSeq(s, LAMBDA c : c # "_")

\* the number of zeros at the head of a sequence of digit values
LeadingZeros(d) ==
    IF \A i \in 1..Len(d) : d[i] = 0 THEN Len(d)
    ELSE (CHOOSE i \in 1..Len(d) : d[i] # 0 /\ \A j \in 1..(i-1) : d[j] = 0) - 1
StripLeadingZeros(d) == SubSeq(d, LeadingZeros(d) + 1, Len(d))
StripTrailingZeros(d) ==
    LET n == Len(d) IN
    IF \A i \in 1..n : d[i] = 0 THEN <<>>
    ELSE SubSeq(d, 1, CHOOSE i \in 1..n :
                         d[i] # 0 /\ \A j \in (i+1)..n : d[j] = 0)
DigitVals(s) == Elements([i \in 1..Len(s) |-> DigitVal(s[i])])
RECURSIVE NatVal(_)
NatVal(d) == IF d = <<>> THEN 0 ELSE 10 * NatVal(SubSeq(d, 1, Len(d) - 1)) + d[Len(d)]

\* sys.get_int_max_str_digits() of Python 3.11: int() raises ValueError for
\* a text of more digits
IntMaxStrDigits == 4300

\* int(text): white space, an optional sign, one or more digits with single
\* underscores between them, white space, at most 4300 digits; anything
\* else is a ValueError
IntOk(s) ==
    LET u == Unsigned(NumberText(s)) IN
    /\ UnderscoresOk(u)
    /\ u # <<>>
    /\ AllDigits(NoUnderscores(u))
    /\ Len(NoUnderscores(u)) <= IntMaxStrDigits
\* the value of the text, for a value below 2^31
IntVal(s) ==
    LET t == NumberText(s)
    IN Sign(t) * NatVal(StripLeadingZeros(DigitVals(NoUnderscores(Unsigned(t)))))

\* ------------------------------------------------------------------------
\* Decimal arithmetic on digit sequences: [digits, point] is the number
\* 0.d1 d2 ... dn * 10^point, in normal form when d1 # 0 and dn # 0 (zero is
\* the empty sequence)
\* ------------------------------------------------------------------------
Dec(digits, point) == [digits |-> digits, point |-> point]
DecNorm(x) ==
    LET lz == LeadingZeros(x.digits)
        d == StripTrailingZeros(SubSeq(x.digits, lz + 1, Len(x.digits)))
    IN IF d = <<>> THEN Dec(<<>>, 0) ELSE Dec(d, x.point - lz)

\* 2 * x for x # 0 in normal form
Twice(x) ==
    LET d == x.digits
        n == Len(d)
        out == [i \in 1..n |->
                  ((2 * d[i]) % 10) + (IF i < n /\ d[i+1] >= 5 THEN 1 ELSE 0)]
        body == SubSeq(out, 1, IF out[n] = 0 THEN n - 1 ELSE n)
    IN IF d[1] >= 5 THEN Dec(<<1>> \o body, x.point + 1) ELSE Dec(body, x.point)

\* x / 2 for x # 0 in normal form
Half(x) ==
    LET d == x.digits
        n == Len(d)
        out == [i \in 1..n |->
                  (d[i] + (IF i > 1 /\ d[i-1] % 2 = 1 THEN 10 ELSE 0)) \div 2]
        all == out \o (IF d[n] % 2 = 1 THEN <<5>> ELSE <<>>)
    IN IF all[1] = 0 THEN Dec(Tail(all), x.point - 1) ELSE Dec(all, x.point)

\* x * 2^k
RECURSIVE Scale(_, _)
Scale(x, k) ==
    IF k = 0 \/ x.digits = <<>> THEN x
    ELSE IF k = 1 THEN Twice(x)
    ELSE IF k = -1 THEN Half(x)
    ELSE LET h == IF k > 0 THEN k \div 2 ELSE -((-k) \div 2)
         IN Scale(Scale(x, h), k - h)

\* -1, 0, 1 as 0.a is below, equal to or above 0.b
RECURSIVE DigitsCmp(_, _)
DigitsCmp(a, b) ==
    IF a = <<>> /\ b = <<>> THEN 0
    ELSE LET x == IF a = <<>> THEN 0 ELSE a[1]
             y == IF b = <<>> THEN 0 ELSE b[1]
         IN IF x < y THEN -1
            ELSE IF x > y THEN 1
            ELSE DigitsCmp(IF a = <<>> THEN a ELSE Tail(a),
                           IF b = <<>> THEN b ELSE Tail(b))
\* -1, 0, 1 as the natural number of digits a is below, equal to or above b
NatCmp(a, b) ==
    IF Len(a) < Len(b) THEN -1
    ELSE IF Len(a) > Len(b) THEN 1
    ELSE DigitsCmp(a, b)

\* the integer part and the digits after the point of x, for x.point <= 16
Zeros(n) == Elements([i \in 1..n |-> 0])
Whole(x) ==
    IF x.point <= 0 THEN <<>>
    ELSE IF x.point >= Len(x.digits)
    THEN x.digits \o Zeros(x.point - Len(x.digits))
    ELSE SubSeq(x.digits, 1, x.point)
Fraction(x) ==
    IF x.point <= 0 THEN Zeros(-x.point) \o x.digits
    ELSE SubSeq(x.digits, x.point + 1, Len(x.digits))

RECURSIVE Successor(_)
Successor(d) ==
    IF d = <<>> THEN <<1>>
    ELSE IF d[Len(d)] < 9 THEN [d EXCEPT ![Len(d)] = @ + 1]
    ELSE Successor(SubSeq(d, 1, Len(d) - 1)) \o <<0>>

RECURSIVE NatDigits(_)
NatDigits(n) == IF n = 0 THEN <<>> ELSE Append(NatDigits(n \div 10), n % 10)

\* ------------------------------------------------------------------------
\* Python floats (IEEE 754 doubles).  A float is nan, an infinity, or
\* (-1)^neg * mant * 2^exp with mant a natural number given by its decimal
\* digits: 2^52 <= mant < 2^53 and -1074 <= exp <= 971 for a normal number,
\* mant < 2^52 and exp = -1074 for a subnormal one, mant empty and exp = 0
\* for zero.
\* ------------------------------------------------------------------------
TwoTo52 == <<4,5,0,3,5,9,9,6,2,7,3,7,0,4,9,6>>
TwoTo53 == <<9,0,0,7,1,9,9,2,5,4,7,4,0,9,9,2>>
MinExp == -1074
MaxExp == 971

FloatNaN == [kind |-> "nan", neg |-> FALSE, mant |-> <<>>, exp |-> 0]
FloatInf(neg) == [kind |-> "inf", neg |-> neg, mant |-> <<>>, exp |-> 0]
FloatZero == [kind |-> "fin", neg |-> FALSE, mant |-> <<>>, exp |-> 0]

AtLeastTwoTo52(x) ==
    \/ x.point > 16
    \/ /\ x.point = 16
       /\ DigitsCmp(SubSeq(x.digits, 1, IF Len(x.digits) < 16 THEN Len(x.digits) ELSE 16),
                    TwoTo52) >= 0

\* an upper bound of floor(log2(x)) for x < 10^point
Log2Bound(point) ==
    IF point >= 0 THEN (point * 33220) \div 10000
    ELSE -(((-point) * 33219) \div 10000)

\* x * 2^k for the least k >= start with x * 2^k >= 2^52, or k = 1074
RECURSIVE ToMantissa(_, _)
ToMantissa(x, k) ==
    IF k >= -MinExp \/ AtLeastTwoTo52(x) THEN [x |-> x, k |-> k]
    ELSE ToMantissa(Twice(x), k + 1)

\* -1, 0, 1 as the fraction 0.f is below, equal to or above one half
HalfCmp(f) ==
    IF f = <<>> \/ f[1] < 5 THEN -1
    ELSE IF f[1] > 5 \/ \E i \in 2..Len(f) : f[i] # 0 THEN 1
    ELSE 0

\* the double nearest to (-1)^neg * 0.all * 10^point, ties to the even
\* mantissa: what float() and the division of two ints give
Nearest(neg, all, point) ==
    LET \* the float of mantissa mant and exponent exp
        Finite(mant, exp) ==
            IF mant = <<>> THEN FloatZero
            ELSE IF exp > MaxExp THEN FloatInf(neg)
            ELSE [kind |-> "fin", neg |-> neg, mant |-> mant, exp |-> exp]
        \* m * 2^-k with m <= 2^53
        Pack(m, k) ==
            IF m = TwoTo53 THEN Finite(TwoTo52, 1 - k) ELSE Finite(m, -k)
        \* low + 0.frac, an exact half goes to the even neighbour
        Up(low, cmp) ==
            cmp = 1 \/ (cmp = 0 /\ low # <<>> /\ low[Len(low)] % 2 = 1)
        Round(low, frac, k) ==
            Pack(IF Up(low, HalfCmp(frac)) THEN Successor(low) ELSE low, k)
        Scaled(w) ==
            Round(StripLeadingZeros(Whole(w.x)), Fraction(w.x), w.k)
        From(v, start) ==
            Scaled(ToMantissa(Scale(v, start), start))
        Bounded(k) == IF k > -MinExp THEN -MinExp ELSE k
        Norm(v) ==
            IF v.digits = <<>> THEN FloatZero
            ELSE IF v.point > 310 THEN FloatInf(neg)
            ELSE IF v.point < -330 THEN FloatZero
            ELSE From(v, Bounded(52 - Log2Bound(v.point)))
    IN Norm(DecNorm(Dec(all, point)))

\* float(n * 10^-places) for an integer n
FloatOf(n, places) ==
    LET d == NatDigits(IF n < 0 THEN -n ELSE n)
    IN Nearest(n < 0, d, Len(d) - places)

\* the digits after the point of r / d, for r < d and d a divisor of a
\* power of 10
RECURSIVE LongDivision(_, _)
LongDivision(r, d) ==
    IF r = 0 THEN <<>>
    ELSE <<(10 * r) \div d>> \o LongDivision((10 * r) % d, d)

\* the float p / d for p >= 0
Ratio(p, d) ==
    LET whole == NatDigits(p \div d)
    IN Nearest(FALSE, whole \o LongDivision(p % d, d), Len(whole))

\* -1, 0, 1 as x < y, x == y, x > y; 2 when one of them is nan and every
\* comparison is False
FloatCmp(x, y) ==
    IF x.kind = "nan" \/ y.kind = "nan" THEN 2
    ELSE LET sx == IF x.kind = "fin" /\ x.mant = <<>> THEN 0
                   ELSE IF x.neg THEN -1 ELSE 1
             sy == IF y.kind = "fin" /\ y.mant = <<>> THEN 0
                   ELSE IF y.neg THEN -1 ELSE 1
             \* magnitudes of two numbers of the same sign, sx # 0
             mag == IF x.kind = "inf" /\ y.kind = "inf" THEN 0
                    ELSE IF x.kind = "inf" THEN 1
                    ELSE IF y.kind = "inf" THEN -1
                    ELSE IF x.exp # y.exp
                    THEN (IF x.exp > y.exp THEN 1 ELSE -1)
                    ELSE NatCmp(x.mant, y.mant)
         IN IF sx # sy THEN (IF sx < sy THEN -1 ELSE 1)
            ELSE IF sx = 0 THEN 0
            ELSE sx * mag
FloatLess(x, y) == FloatCmp(x, y) = -1
FloatLessEq(x, y) == FloatCmp(x, y) \in {-1, 0}
FloatGreater(x, y) == FloatCmp(x, y) = 1

\* float(text): white space, an optional sign, then inf, infinity or nan in
\* any case, or digits with an optional "." and an optional exponent, at
\* least one digit before the exponent, single underscores between digits;
\* anything else is a ValueError
DotPos(s) == IF \E i \in 1..Len(s) : s[i] = "."
             THEN CHOOSE i \in 1..Len(s) :
                     s[i] = "." /\ \A j \in 1..(i-1) : s[j] # "."
             ELSE 0
IntPart(s) == IF DotPos(s) = 0 THEN s ELSE SubSeq(s, 1, DotPos(s) - 1)
FracPart(s) == IF DotPos(s) = 0 THEN <<>> ELSE SubSeq(s, DotPos(s) + 1, Len(s))
ExpPos(s) == IF \E i \in 1..Len(s) : s[i] \in {"e", "E"}
             THEN CHOOSE i \in 1..Len(s) :
                     s[i] \in {"e", "E"} /\ \A j \in 1..(i-1) : s[j] \notin {"e", "E"}
             ELSE 0
Mantissa(s) == IF ExpPos(s) = 0 THEN s ELSE SubSeq(s, 1, ExpPos(s) - 1)
Exponent(s) == IF ExpPos(s) = 0 THEN <<"0">> ELSE SubSeq(s, ExpPos(s) + 1, Len(s))
FloatNames == { <<"i","n","f">>, <<"i","n","f","i","n","i","t","y">>, <<"n","a","n">> }
\* the exponent: one of more than nine significant digits is read as
\* 1100000000 with its sign (MAX_ABS_EXP of the conversion)
MaxAbsExp == 1100000000
ExponentVal(s) ==
    LET d == StripLeadingZeros(DigitVals(Unsigned(s)))
    IN Sign(s) * (IF Len(d) > 9 THEN MaxAbsExp ELSE NatVal(d))
FloatOk(s) ==
    LET t == NumberText(s)
        u == NoUnderscores(Unsigned(t))
    IN /\ UnderscoresOk(t)
       /\ \/ Lower(u) \in FloatNames
          \/ /\ AllDigits(IntPart(Mantissa(u)))
             /\ AllDigits(FracPart(Mantissa(u)))
             /\ Len(IntPart(Mantissa(u))) + Len(FracPart(Mantissa(u))) > 0
             /\ Unsigned(Exponent(u)) # <<>>
             /\ AllDigits(Unsigned(Exponent(u)))
FloatVal(s) ==
    LET t == NumberText(s)
        u == NoUnderscores(Unsigned(t))
        m == Mantissa(u)
    IN IF Lower(u) = <<"n","a","n">> THEN FloatNaN
       ELSE IF Lower(u) \in FloatNames THEN FloatInf(Sign(t) = -1)
       ELSE Nearest(Sign(t) = -1,
                    DigitVals(IntPart(m)) \o DigitVals(FracPart(m)),
                    Len(IntPart(m)) + ExponentVal(Exponent(u)))

\* a form field: absent, or present with a text
Absent == [present |-> FALSE, text |-> <<>>]
Field(t) == [present |-> TRUE, text |-> t]

\* int(request.form.get(name, default))
FormIntOk(f) == f.present => IntOk(f.text)
FormInt(f, default) == IF f.present THEN IntVal(f.text) ELSE default


\* ------------------------------------------------------------------------
\* Images and the Pillow operations the core calls
\* ------------------------------------------------------------------------
White == <<255, 255, 255>>
Black == <<0, 0, 0>>

NoImage == [size |-> <<0, 0>>, mode |-> "none", color |-> Black, alpha |-> 0]

AlphaModes == {"RGBA", "LA"}

\* variant of Resize that fits the image into the box keeping its aspect
\* ratio, as Image.thumbnail does
Resize_KeepAspect(image, target_width, target_height) ==
    LET scaled == (image.size[2] * target_width) \div image.size[1]
        height == IF scaled < 1 THEN 1
                  ELSE IF scaled > target_height THEN target_height ELSE scaled
    IN [image EXCEPT !.size = <<target_width, height>>]

\* Image.resize((target_width, target_height), Image.LANCZOS): the result has
\* exactly the requested size and the mode of the source.  A same-size resize
\* is a copy; otherwise RGBA and LA are resampled with premultiplied alpha, so
\* a fully transparent pixel comes back with its colour zeroed.
Resize(image, target_width, target_height) ==
    IF image.size = <<target_width, target_height>> THEN image
    ELSE [image EXCEPT
            !.size = <<target_width, target_height>>,
            !.color = IF image.mode \in AlphaModes /\ image.alpha = 0
                      THEN Black ELSE @]

\* resize raises for a degenerate size, and it is the first operation that
\* reads the pixel data, so a truncated file fails here and not in Image.open
ResizeRaises(content, target_width, target_height) ==
    target_width <= 0 \/ target_height <= 0 \/ content = "truncated"

\* one channel of Image.paste(im, mask=...): (bg*(255-mask) + fg*mask) / 255,
\* rounded the way Pillow's DIV255 rounds
Div255(a) == (((a + 128) \div 256) + (a + 128)) \div 256
Blend8(bg, fg, mask) == Div255(bg * (255 - mask) + fg * mask)

\* background = Image.new('RGB', size, (255,255,255));
\* background.paste(resized_image, mask=resized_image.split()[3])
PasteOnWhite(image) ==
    [size |-> image.size, mode |-> "RGB",
     color |-> [i \in 1..3 |-> Blend8(White[i], image.color[i], image.alpha)],
     alpha |-> 255]

\* image.convert('RGB'): the colour each pixel denotes, any transparency dropped
ConvertRGB(image) ==
    [size |-> image.size, mode |-> "RGB", color |-> image.color, alpha |-> 255]

\* STEP 2 of resize_and_compress_image
Normalize(resized_image) ==
    IF resized_image.mode \in {"RGBA", "P"}
    THEN IF resized_image.mode = "RGBA"
         THEN PasteOnWhite(resized_image)
         ELSE ConvertRGB(resized_image)
    ELSE IF resized_image.mode # "RGB"
         THEN ConvertRGB(resized_image)
         ELSE resized_image

\* ------------------------------------------------------------------------
\* The JPEG encoder: a pure function of the image and the quality.  Its size
\* function is drawn from the family "hi bytes above quality t, lo bytes at
\* or below it" (constant when lo = hi, non-monotone when lo > hi).
\* ------------------------------------------------------------------------
EncodedSizes == {1024, 51206, 10485761}
Thresholds == {QualityFloor - 1, QualityFloor} \cup {25 * i : i \in 1..MaxThreshold}
Encoders == [t : Thresholds, lo : EncodedSizes, hi : EncodedSizes]
NoEncoder == [t |-> 0, lo |-> 0, hi |-> 0]

EncodedSize(enc, quality) == IF quality > enc.t THEN enc.hi ELSE enc.lo

NoBuffer == [src |-> NoImage, quality |-> 0, optimize |-> FALSE, len |-> 0]

\* buffer = io.BytesIO(); image.save(buffer, format='JPEG', quality=q, optimize=True)
Save(enc, image, quality) ==
    [src |-> image, quality |-> quality, optimize |-> TRUE,
     len |-> EncodedSize(enc, quality)]

\* output_buffer.tell() / 1024; the quotients of the sizes the encoders
\* produce are worked out once
KbOfEncodedSize == [bytes \in EncodedSizes |-> Ratio(bytes, 1024)]
SizeKb(bytes) ==
    IF bytes \in EncodedSizes THEN KbOfEncodedSize[bytes] ELSE Ratio(bytes, 1024)

\* current_size_kb > max_size_kb, with current_size_kb = bytes / 1024
SizeExceeds(bytes, max_size_kb) == FloatGreater(SizeKb(bytes), max_size_kb)

\* round(bytes / 1024, 2) in hundredths of a KB: bytes / 1024 is exact in
\* binary floating point, and round() rounds exact halves to even
Round2(bytes) ==
    LET q == (bytes * 100) \div 1024
        r == (bytes * 100) % 1024
    IN IF r > 512 \/ (r = 512 /\ q % 2 = 1) THEN q + 1 ELSE q


\* ------------------------------------------------------------------------
\* Inputs
\* ------------------------------------------------------------------------
Orange == <<200, 100, 50>>
Gray == <<100, 100, 100>>

Img(size, mode, color, alpha) ==
    [size |-> size, mode |-> mode, color |-> color, alpha |-> alpha]

\* decoded source images: every mode the PNG and JPEG decoders produce for
\* the cases of STEP 2, with a fully transparent or a fully opaque pixel
Images ==
    { Img(<<4000, 3000>>, "RGBA", c, a) : c \in {Orange, Black}, a \in {0, 255} }
    \cup { Img(<<4000, 3000>>, "LA", Gray, a) : a \in {0, 255} }
    \cup { Img(<<4000, 3000>>, "P", Orange, a) : a \in {0, 255} }
    \cup { Img(<<4000, 3000>>, "L", Gray, 255),
           Img(<<4000, 3000>>, "RGB", Orange, 255),
           Img(<<200, 200>>, "RGB", Orange, 255),
           Img(<<200, 200>>, "RGBA", Orange, 0) }

\* the uploaded file part: its name and what its bytes decode to
NoFile == [present |-> FALSE, filename |-> <<>>, content |-> "none", image |-> NoImage]
BadFilenames == { <<>>, <<"a",".","p","d","f">>, <<"p","n","g">> }
File(filename, content, image) ==
    [present |-> TRUE, filename |-> filename, content |-> content, image |-> image]
Files ==
    {NoFile}
    \cup { File(f, "garbage", NoImage) : f \in BadFilenames }
    \cup { File(<<"a",".","b",".","j","p","g">>, "ok",
                Img(<<4000, 3000>>, "RGB", Orange, 255)),
           File(<<"a",".","P","N","G">>, "garbage", NoImage) }
    \cup { File(<<"a",".","P","N","G">>, c, i) : c \in {"ok", "truncated"}, i \in Images }

WidthFields ==
    { Absent, Field(<<"1">>), Field(<<"5","0","0","0">>), Field(<<"0">>),
      Field(<<"5","0","0","1">>), Field(<<"a","b","c">>) }
HeightFields ==
    { Absent, Field(<<"1">>), Field(<<"0">>), Field(<<"5","0","0","1">>) }
MaxSizeFields ==
    { Absent, Field(<<"1","0","2","4","0">>),
      Field(<<"1","0","2","4","0",".","0","1">>), Field(<<"0">>),
      Field(<<"5","0",".","0","0","6">>), Field(<<"0",".","0","0","1">>),
      Field(<<"x">>) }
QualityFields ==
    { Absent, Field(<<"1">>), Field(<<"1","0","0">>), Field(<<"0">>),
      Field(<<"1","0","1">>), Field(<<"7">>), Field(<<"8",".","5">>) }

\* texts that int() and float() read beyond plain digits: white space around
\* the number, underscores, digits of other scripts, exponents, nan, inf
LenientWidthFields ==
    { Field(<<" ","2","0","0">>), Field(<<"U+0009","7","U+00A0">>),
      Field(<<"1","_","0","0","0">>), Field(<<"U+0663">>),
      Field(<<"1","_","_","0">>), Field(<<"1"," ","0">>), Field(<<"U+001C","5">>) }
LenientMaxSizeFields ==
    { Field(<<"1","e","3">>), Field(<<"1","E","-","2">>), Field(<<"n","a","n">>),
      Field(<<"-","N","a","N"," ">>), Field(<<"i","n","f">>),
      Field(<<"-","I","n","f","i","n","i","t","y">>),
      Field(<<"0",".","0","0","0","1">>),
      Field(<<"1","0","2","4","0",".","0","0","0","1">>),
      Field(<<"5","0",".","0","0","5","8","5","9","3","7","5">>),
      Field(<<"5","0",".","0","0","5","8","5","9","3","7","4">>),
      Field(<<"1","e","-","4","0","0">>), Field(<<"1","_","0",".","5","e","1","_","0">>),
      Field(<<"U+0661",".","U+0665">>), Field(<<"1","_","e","1">>),
      Field(<<"i","n","f","i">>), Field(<<".">>) }
LenientQualityFields ==
    { Absent, Field(<<"+","7","U+3000">>), Field(<<"1","e","1">>) }
AnImageFile == File(<<"a",".","P","N","G">>, "ok", Img(<<4000, 3000>>, "RGBA", Orange, 0))

\* a POST /upload; too_large: the body is longer than MAX_CONTENT_LENGTH
Requests ==
    [too_large : {FALSE}, file : Files, width : WidthFields, height : HeightFields,
     maxSize : MaxSizeFields, quality : QualityFields]
    \cup [too_large : {FALSE}, file : {AnImageFile}, width : LenientWidthFields,
          height : {Absent}, maxSize : {Absent}, quality : LenientQualityFields]
    \cup [too_large : {FALSE}, file : {AnImageFile}, width : {Absent},
          height : {Absent}, maxSize : LenientMaxSizeFields,
          quality : LenientQualityFields]
    \cup [too_large : {TRUE}, file : Files, width : {Absent}, height : {Absent},
          maxSize : {Absent}, quality : {Absent}]
NoRequest ==
    [too_large |-> FALSE, file |-> NoFile, width |-> Absent, height |-> Absent,
     maxSize |-> Absent, quality |-> Absent]

\* float(text) of the maxSize texts above, worked out once
MaxSizeTexts == { f.text : f \in (MaxSizeFields \cup LenientMaxSizeFields) \ {Absent} }
FloatOfText == [t \in { x \in MaxSizeTexts : FloatOk(x) } |-> FloatVal(t)]
\* float(request.form.get(name, default))
FormFloatOk(f) == f.present => FloatOk(f.text)
FormFloat(f, default) ==
    IF ~f.present THEN default
    ELSE IF f.text \in DOMAIN FloatOfText THEN FloatOfText[f.text]
    ELSE FloatVal(f.text)

\* arguments of direct invocations of the core
DirectSizes == { <<200, 200>>, <<0, 200>> }
DirectMaxSizes == { FloatOf(-1, 0), FloatZero, FloatOf(50006, 3), FloatOf(1024001, 2),
                    FloatNaN, FloatInf(FALSE) }
DirectQualities == (1 - QualityMargin)..(100 + QualityMargin)
DirectImages == { Img(<<4000, 3000>>, "RGBA", Orange, 0),
                  Img(<<200, 200>>, "RGB", Orange, 255) }

NoArgs == [target_width |-> 0, target_height |-> 0, max_size_kb |-> FloatZero,
           initial_quality |-> 0]
NoResult == [bytes |-> NoBuffer, final_quality |-> 0, final_size_kb |-> 0]
NoResponse == [status |-> 0, success |-> FALSE, error |-> "", image |-> NoBuffer,
               originalWidth |-> 0, originalHeight |-> 0, newWidth |-> 0,
               newHeight |-> 0, finalQuality |-> 0, finalSize |-> 0,
               adjusted |-> FALSE]

\* jsonify({'success': False, 'error': ...}), status
ErrorResponse(status, error) ==
    [NoResponse EXCEPT !.status = status, !.error = error]


\* ------------------------------------------------------------------------
\* State
\* ------------------------------------------------------------------------
VARIABLES
    pc,               \* "idle", "resize", "encode", "loop", "returned", "raised", "done"
    caller,           \* who invoked the core: "upload", "direct" or "none"
    request,          \* the /upload request being handled
    core_calls,       \* invocations of resize_and_compress_image for this request
    args,             \* target_width, target_height, max_size_kb, initial_quality
    image,            \* the image argument of the core
    content,          \* whether the pixel data behind image can be loaded
    encoder,          \* the size function of the JPEG encoder for this image
    resized_image,    \* local of the core, normalized after STEP 2
    output_buffer,    \* local of the core
    current_size_kb,  \* local of the core, as a byte count
    current_quality,  \* local of the core
    encodes,          \* number of image.save calls made by this invocation
    result,           \* what the core returned
    response,         \* what the handler answered
    procs             \* the invocations of the core that run in parallel

\* the state of the handler and of the invocation it makes
seq_vars == <<pc, caller, request, core_calls, args, image, content, encoder,
              resized_image, output_buffer, current_size_kb, current_quality,
              encodes, result, response>>

vars == <<seq_vars, procs>>

core_locals == <<resized_image, output_buffer, current_size_kb, current_quality,
                 encodes, encoder>>

\* an invocation of the core running beside others: its arguments, the
\* encoder of its image, its locals and what it returned
Procs == 1..NumProcs
IdleProc ==
    [pc |-> "idle", calls |-> 0, image |-> NoImage, args |-> NoArgs,
     encoder |-> NoEncoder, resized_image |-> NoImage,
     output_buffer |-> NoBuffer, current_size_kb |-> 0, current_quality |-> 0,
     result |-> NoResult]

Init ==
    /\ procs = [p \in Procs |-> IdleProc]
    /\ pc = "idle"
    /\ caller = "none"
    /\ request = NoRequest
    /\ core_calls = 0
    /\ args = NoArgs
    /\ image = NoImage
    /\ content = "none"
    /\ encoder = NoEncoder
    /\ resized_image = NoImage
    /\ output_buffer = NoBuffer
    /\ current_size_kb = 0
    /\ current_quality = 0
    /\ encodes = 0
    /\ result = NoResult
    /\ response = NoResponse

\* ------------------------------------------------------------------------
\* upload_and_process, up to the call of the core
\* ------------------------------------------------------------------------
\* the parsed parameters of a request whose four fields parse
ParsedWidth(req) == FormInt(req.width, DefaultWidth)
ParsedHeight(req) == FormInt(req.height, DefaultHeight)
\* float(50), float(10240)
DefaultMaxSizeFloat == FloatOf(DefaultMaxSizeKb, 0)
MaxSizeLimitFloat == FloatOf(MaxSizeLimitKb, 0)
ParsedMaxSize(req) == FormFloat(req.maxSize, DefaultMaxSizeFloat)
ParsedQuality(req) == FormInt(req.quality, DefaultQuality)

ParamsParse(req) ==
    /\ FormIntOk(req.width)
    /\ FormIntOk(req.height)
    /\ FormFloatOk(req.maxSize)
    /\ FormIntOk(req.quality)

\* variant of the upper limit check that also rejects the limit itself
WidthHeightInLimit_Strict(width, height) ==
    ~(width >= MaxDimension \/ height >= MaxDimension)

\* VALIDATION 4
WidthHeightPositive(width, height) == ~(width <= 0 \/ height <= 0)
WidthHeightInLimit(width, height) == ~(width > MaxDimension \/ height > MaxDimension)
MaxSizePositive(max_size_kb) == ~FloatLessEq(max_size_kb, FloatZero)
MaxSizeInLimit(max_size_kb) == ~FloatGreater(max_size_kb, MaxSizeLimitFloat)
QualityInRange(quality) == ~(quality < 1 \/ quality > 100)

\* the answer the handler gives before it reaches the core, NoResponse when
\* it reaches the core
EarlyResponse(req) ==
    IF req.too_large
        \* request.files raises RequestEntityTooLarge inside the try block
    THEN ErrorResponse(500, "unexpected")
    ELSE IF ~req.file.present THEN ErrorResponse(400, "no image file")
    ELSE IF req.file.filename = <<>> THEN ErrorResponse(400, "no file selected")
    ELSE IF ~allowed_file(req.file.filename) THEN ErrorResponse(400, "invalid file type")
    ELSE IF ~ParamsParse(req) THEN ErrorResponse(400, "invalid input values")
    ELSE IF ~WidthHeightPositive(ParsedWidth(req), ParsedHeight(req))
    THEN ErrorResponse(400, "width and height must be positive")
    ELSE IF ~WidthHeightInLimit(ParsedWidth(req), ParsedHeight(req))
    THEN ErrorResponse(400, "width and height cannot exceed 5000")
    ELSE IF ~MaxSizePositive(ParsedMaxSize(req))
    THEN ErrorResponse(400, "maximum file size must be positive")
    ELSE IF ~MaxSizeInLimit(ParsedMaxSize(req))
    THEN ErrorResponse(400, "maximum file size cannot exceed 10240")
    ELSE IF ~QualityInRange(ParsedQuality(req))
    THEN ErrorResponse(400, "quality must be between 1 and 100")
    ELSE IF req.file.content = "garbage"
        \* Image.open raises, caught by except Exception
    THEN ErrorResponse(500, "unexpected")
    ELSE NoResponse

upload_and_process(req) ==
    /\ pc = "idle"
    /\ request' = req
    /\ IF EarlyResponse(req) # NoResponse
       THEN /\ response' = EarlyResponse(req)
            /\ pc' = "done"
            /\ caller' = "upload"
            /\ UNCHANGED <<core_calls, args, image, content>>
       ELSE /\ response' = NoResponse
            /\ pc' = "resize"
            /\ caller' = "upload"
            /\ core_calls' = core_calls + 1
            /\ image' = req.file.image
            /\ content' = req.file.content
            /\ args' = [target_width |-> ParsedWidth(req),
                        target_height |-> ParsedHeight(req),
                        max_size_kb |-> ParsedMaxSize(req),
                        initial_quality |-> ParsedQuality(req)]
    /\ UNCHANGED <<core_locals, result>>
    /\ UNCHANGED procs

\* resize_and_compress_image called by other code than the handler
direct_call(img, size, max_size_kb, initial_quality) ==
    /\ pc = "idle"
    /\ pc' = "resize"
    /\ caller' = "direct"
    /\ core_calls' = core_calls + 1
    /\ image' = img
    /\ content' = "ok"
    /\ args' = [target_width |-> size[1], target_height |-> size[2],
                max_size_kb |-> max_size_kb, initial_quality |-> initial_quality]
    /\ UNCHANGED <<request, core_locals, result, response>>
    /\ UNCHANGED procs


\* ------------------------------------------------------------------------
\* resize_and_compress_image
\* ------------------------------------------------------------------------
\* variant of core_resize that first rejects an initial_quality outside
\* [1,100] and a max_size_kb outside (0,10240]
core_resize_Validating ==
    /\ pc = "resize"
    /\ IF \/ ResizeRaises(content, args.target_width, args.target_height)
          \/ args.initial_quality < 1 \/ args.initial_quality > 100
          \/ ~MaxSizePositive(args.max_size_kb) \/ ~MaxSizeInLimit(args.max_size_kb)
       THEN /\ pc' = "raised"
            /\ UNCHANGED resized_image
       ELSE /\ pc' = "encode"
            /\ resized_image' =
                 Normalize(Resize(image, args.target_width, args.target_height))
    /\ UNCHANGED <<caller, request, core_calls, args, image, content, encoder,
                   output_buffer, current_size_kb, current_quality, encodes,
                   result, response>>
    /\ UNCHANGED procs

\* STEP 1 and STEP 2: resize, then normalize the colour mode
core_resize ==
    /\ pc = "resize"
    /\ IF ResizeRaises(content, args.target_width, args.target_height)
       THEN /\ pc' = "raised"
            /\ UNCHANGED resized_image
       ELSE /\ pc' = "encode"
            /\ resized_image' =
                 Normalize(Resize(image, args.target_width, args.target_height))
    /\ UNCHANGED <<caller, request, core_calls, args, image, content, encoder,
                   output_buffer, current_size_kb, current_quality, encodes,
                   result, response>>
    /\ UNCHANGED procs

\* STEP 3: the initial compression at initial_quality
core_initial_encode(enc) ==
    /\ pc = "encode"
    /\ encoder' = enc
    /\ output_buffer' = Save(enc, resized_image, args.initial_quality)
    /\ current_size_kb' = EncodedSize(enc, args.initial_quality)
    /\ current_quality' = args.initial_quality
    /\ encodes' = 1
    /\ pc' = "loop"
    /\ UNCHANGED <<caller, request, core_calls, args, image, content,
                   resized_image, result, response>>
    /\ UNCHANGED procs

\* variants of the loop condition: backing off down to quality 0, stopping
\* at quality 10, ignoring the size
LoopCondition_ToZero(size, max_size_kb, quality) ==
    SizeExceeds(size, max_size_kb) /\ quality > 0
LoopCondition_StopAtTen(size, max_size_kb, quality) ==
    SizeExceeds(size, max_size_kb) /\ quality > 2 * QualityFloor
LoopCondition_StopAtSix(size, max_size_kb, quality) ==
    SizeExceeds(size, max_size_kb) /\ quality > QualityFloor + 1
LoopCondition_IgnoreSize(size, max_size_kb, quality) ==
    quality > QualityFloor

\* while current_size_kb > max_size_kb and current_quality > 5
LoopCondition(size, max_size_kb, quality) ==
    SizeExceeds(size, max_size_kb) /\ quality > QualityFloor

\* what decoding a JPEG gives back: the image with its colour quantized
Lossy(img) == [img EXCEPT !.color = [i \in 1..3 |-> (@[i] \div 8) * 8]]

\* variant of the loop that re-encodes the previously encoded copy
core_loop_Recompress ==
    /\ pc = "loop"
    /\ LoopCondition(current_size_kb, args.max_size_kb, current_quality)
    /\ current_quality' = current_quality - QualityStep
    /\ resized_image' = Lossy(output_buffer.src)
    /\ output_buffer' = Save(encoder, resized_image', current_quality')
    /\ current_size_kb' = EncodedSize(encoder, current_quality')
    /\ encodes' = encodes + 1
    /\ UNCHANGED <<pc, caller, request, core_calls, args, image, content, encoder,
                   result, response>>
    /\ UNCHANGED procs

\* variant of the loop that saves before it lowers the quality
core_loop_SaveThenLower ==
    /\ pc = "loop"
    /\ LoopCondition(current_size_kb, args.max_size_kb, current_quality)
    /\ output_buffer' = Save(encoder, resized_image, current_quality)
    /\ current_size_kb' = EncodedSize(encoder, current_quality)
    /\ current_quality' = current_quality - QualityStep
    /\ encodes' = encodes + 1
    /\ UNCHANGED <<pc, caller, request, core_calls, args, image, content, encoder,
                   resized_image, result, response>>
    /\ UNCHANGED procs

\* STEP 4: one iteration of the loop
core_loop ==
    /\ pc = "loop"
    /\ LoopCondition(current_size_kb, args.max_size_kb, current_quality)
    /\ current_quality' = current_quality - QualityStep
    /\ output_buffer' = Save(encoder, resized_image, current_quality')
    /\ current_size_kb' = EncodedSize(encoder, current_quality')
    /\ encodes' = encodes + 1
    /\ UNCHANGED <<pc, caller, request, core_calls, args, image, content, encoder,
                   resized_image, result, response>>
    /\ UNCHANGED procs

\* STEP 5: the loop is left and the result returned
core_return ==
    /\ pc = "loop"
    /\ ~LoopCondition(current_size_kb, args.max_size_kb, current_quality)
    /\ result' = [bytes |-> output_buffer, final_quality |-> current_quality,
                  final_size_kb |-> Round2(current_size_kb)]
    /\ pc' = "returned"
    /\ UNCHANGED <<caller, request, core_calls, args, image, content, core_locals,
                   response>>
    /\ UNCHANGED procs

\* ------------------------------------------------------------------------
\* upload_and_process, after the core
\* ------------------------------------------------------------------------
\* variant of the test that also notes an unchanged quality
QualityAdjusted_OrEqual(final_quality, quality) == final_quality <= quality

\* if final_quality < quality: the message notes the adjustment
QualityAdjusted(final_quality, quality) == final_quality < quality

upload_respond ==
    /\ pc = "returned"
    /\ caller = "upload"
    /\ response' = [status |-> 200, success |-> TRUE, error |-> "",
                    image |-> result.bytes,
                    originalWidth |-> image.size[1],
                    originalHeight |-> image.size[2],
                    newWidth |-> ParsedWidth(request),
                    newHeight |-> ParsedHeight(request),
                    finalQuality |-> result.final_quality,
                    finalSize |-> result.final_size_kb,
                    adjusted |-> QualityAdjusted(result.final_quality,
                                                 ParsedQuality(request))]
    /\ pc' = "done"
    /\ UNCHANGED <<caller, request, core_calls, args, image, content, core_locals,
                   result>>
    /\ UNCHANGED procs

\* except Exception: the core raised
upload_except ==
    /\ pc = "raised"
    /\ caller = "upload"
    /\ response' = ErrorResponse(500, "unexpected")
    /\ pc' = "done"
    /\ UNCHANGED <<caller, request, core_calls, args, image, content, core_locals,
                   result>>
    /\ UNCHANGED procs

\* the invocation is over and its locals are gone; the next one starts afresh
next_invocation ==
    /\ \/ pc = "done"
       \/ caller = "direct" /\ pc \in {"returned", "raised"}
    /\ pc' = "idle"
    /\ caller' = "none"
    /\ request' = NoRequest
    /\ core_calls' = 0
    /\ args' = NoArgs
    /\ image' = NoImage
    /\ content' = "none"
    /\ encoder' = NoEncoder
    /\ resized_image' = NoImage
    /\ output_buffer' = NoBuffer
    /\ current_size_kb' = 0
    /\ current_quality' = 0
    /\ encodes' = 0
    /\ result' = NoResult
    /\ response' = NoResponse
    /\ UNCHANGED procs

InitialEncode == pc = "encode" /\ \E enc \in Encoders : core_initial_encode(enc)

CoreStep == core_resize \/ InitialEncode \/ core_loop \/ core_return

\* a POST /upload arrives
Upload == pc = "idle" /\ \E req \in Requests : upload_and_process(req)

\* other code calls the core
Direct ==
    /\ pc = "idle"
    /\ \E img \in DirectImages, size \in DirectSizes, m \in DirectMaxSizes,
          q \in DirectQualities : direct_call(img, size, m, q)

Next ==
    \/ Upload
    \/ Direct
    \/ core_resize
    \/ InitialEncode
    \/ core_loop
    \/ core_return
    \/ upload_respond
    \/ upload_except
    \/ next_invocation

Spec == Init /\ [][Next]_vars

\* the core runs to completion without yielding: a started step is taken
FairSpec == Spec /\ WF_vars(CoreStep)


\* ------------------------------------------------------------------------
\* resize_and_compress_image invoked by several threads at once, each on its
\* own image: the steps of the invocations interleave in any order
\* ------------------------------------------------------------------------
ParInput(img, max_size_kb, q, enc) ==
    [image |-> img,
     args |-> [target_width |-> 200, target_height |-> 200,
               max_size_kb |-> max_size_kb, initial_quality |-> q],
     encoder |-> enc]
ParInputs ==
    { ParInput(Img(<<4000, 3000>>, "RGBA", Orange, 0), FloatOf(50, 0), 15,
               [t |-> 4, lo |-> 1024, hi |-> 51206]),
      ParInput(Img(<<200, 200>>, "RGB", Orange, 255), FloatOf(50, 0), 17,
               [t |-> 5, lo |-> 1024, hi |-> 51206]),
      ParInput(Img(<<4000, 3000>>, "L", Gray, 255), FloatOf(50006, 3), 80,
               [t |-> 25, lo |-> 1024, hi |-> 51206]) }

\* the call: a new frame in which the arguments are bound and no local is
\* assigned yet
par_call(p, inp) ==
    /\ procs[p].pc \in {"idle", "returned"}
    /\ procs[p].calls < MaxCalls
    /\ procs' = [procs EXCEPT ![p] =
                   [IdleProc EXCEPT !.pc = "resize", !.calls = procs[p].calls + 1,
                                    !.image = inp.image, !.args = inp.args,
                                    !.encoder = inp.encoder]]
    /\ UNCHANGED seq_vars

\* STEP 1 and STEP 2
par_resize(p) ==
    /\ procs[p].pc = "resize"
    /\ procs' = [procs EXCEPT ![p] =
                   [@ EXCEPT !.pc = "encode",
                             !.resized_image =
                                Normalize(Resize(procs[p].image,
                                                 procs[p].args.target_width,
                                                 procs[p].args.target_height))]]
    /\ UNCHANGED seq_vars

\* STEP 3
par_initial_encode(p) ==
    /\ procs[p].pc = "encode"
    /\ procs' = [procs EXCEPT ![p] =
                   [@ EXCEPT !.pc = "loop",
                             !.output_buffer =
                                Save(procs[p].encoder, procs[p].resized_image,
                                     procs[p].args.initial_quality),
                             !.current_size_kb =
                                EncodedSize(procs[p].encoder,
                                            procs[p].args.initial_quality),
                             !.current_quality = procs[p].args.initial_quality]]
    /\ UNCHANGED seq_vars

\* variant of the loop step in which current_quality is one module-level
\* variable that all invocations write and read
par_loop_SharedQuality(p) ==
    /\ procs[p].pc = "loop"
    /\ LoopCondition(procs[p].current_size_kb, procs[p].args.max_size_kb,
                     procs[p].current_quality)
    /\ LET q == procs[p].current_quality - QualityStep
       IN procs' = [r \in Procs |->
                      IF r = p
                      THEN [procs[p] EXCEPT
                              !.current_quality = q,
                              !.output_buffer =
                                 Save(procs[p].encoder, procs[p].resized_image, q),
                              !.current_size_kb = EncodedSize(procs[p].encoder, q)]
                      ELSE [procs[r] EXCEPT !.current_quality = q]]
    /\ UNCHANGED seq_vars

\* STEP 4: one iteration of the loop
par_loop(p) ==
    /\ procs[p].pc = "loop"
    /\ LoopCondition(procs[p].current_size_kb, procs[p].args.max_size_kb,
                     procs[p].current_quality)
    /\ LET q == procs[p].current_quality - QualityStep
       IN procs' = [procs EXCEPT ![p] =
                      [@ EXCEPT !.current_quality = q,
                                !.output_buffer =
                                   Save(procs[p].encoder, procs[p].resized_image, q),
                                !.current_size_kb =
                                   EncodedSize(procs[p].encoder, q)]]
    /\ UNCHANGED seq_vars

\* STEP 5
par_return(p) ==
    /\ procs[p].pc = "loop"
    /\ ~LoopCondition(procs[p].current_size_kb, procs[p].args.max_size_kb,
                      procs[p].current_quality)
    /\ procs' = [procs EXCEPT ![p] =
                   [@ EXCEPT !.pc = "returned",
                             !.result =
                                [bytes |-> procs[p].output_buffer,
                                 final_quality |-> procs[p].current_quality,
                                 final_size_kb |->
                                    Round2(procs[p].current_size_kb)]]]
    /\ UNCHANGED seq_vars

ParCall == \E p \in Procs, inp \in ParInputs : par_call(p, inp)
ParResize == \E p \in Procs : par_resize(p)
ParInitialEncode == \E p \in Procs : par_initial_encode(p)
ParLoop == \E p \in Procs : par_loop(p)
ParReturn == \E p \in Procs : par_return(p)

ParNext == ParCall \/ ParResize \/ ParInitialEncode \/ ParLoop \/ ParReturn

ParSpec == Init /\ [][ParNext]_vars

\* ------------------------------------------------------------------------
\* api/index.py: the serverless entrypoint, as functions of the request and
\* of the encoder
\* ------------------------------------------------------------------------
index_allowed_file(filename) ==
    /\ \E i \in 1..Len(filename) : filename[i] = "."
    /\ Lower(SubSeq(filename, LastDot(filename) + 1, Len(filename)))
          \in ALLOWED_EXTENSIONS

\* resize, then "Handle transparency and color modes"
index_Normalize(resized) ==
    IF resized.mode \in {"RGBA", "P"}
    THEN IF resized.mode = "RGBA"
         THEN PasteOnWhite(resized)
         ELSE ConvertRGB(resized)
    ELSE IF resized.mode # "RGB"
         THEN ConvertRGB(resized)
         ELSE resized

\* "Auto-adjust quality if needed": the quality at which the loop is left
RECURSIVE index_Backoff(_, _, _)
index_Backoff(enc, max_size_kb, quality) ==
    IF SizeExceeds(EncodedSize(enc, quality), max_size_kb)
          /\ quality > 5
    THEN index_Backoff(enc, max_size_kb, quality - 5)
    ELSE quality

\* resize_and_compress_image of api/index.py; NoResult when it raises
index_resize_and_compress_image(img, cont, a, enc) ==
    IF ResizeRaises(cont, a.target_width, a.target_height) THEN NoResult
    ELSE LET normalized ==
                 index_Normalize(Resize(img, a.target_width, a.target_height))
             final == index_Backoff(enc, a.max_size_kb, a.initial_quality)
         IN [bytes |-> Save(enc, normalized, final),
             final_quality |-> final,
             final_size_kb |-> Round2(EncodedSize(enc, final))]

\* float(50), float(10240)
index_DefaultMaxSize == FloatOf(50, 0)
index_MaxSizeLimit == FloatOf(10240, 0)

\* variant of the single maxSize check that also rejects the limit itself
index_MaxSizeInRange_Strict(max_size_kb) ==
    ~(FloatLessEq(max_size_kb, FloatZero)
      \/ FloatCmp(max_size_kb, index_MaxSizeLimit) \in {0, 1})

\* if max_size_kb <= 0 or max_size_kb > 10240
index_MaxSizeInRange(max_size_kb) ==
    ~(FloatLessEq(max_size_kb, FloatZero)
      \/ FloatGreater(max_size_kb, index_MaxSizeLimit))

\* the answer given before the core is reached, NoResponse when it is reached
index_EarlyResponse(req) ==
    IF req.too_large THEN ErrorResponse(500, "unexpected")
    ELSE IF ~req.file.present THEN ErrorResponse(400, "no image file")
    ELSE IF req.file.filename = <<>> THEN ErrorResponse(400, "no file selected")
    ELSE IF ~index_allowed_file(req.file.filename)
    THEN ErrorResponse(400, "invalid file type")
    ELSE IF ~(/\ FormIntOk(req.width) /\ FormIntOk(req.height)
              /\ FormFloatOk(req.maxSize) /\ FormIntOk(req.quality))
    THEN ErrorResponse(400, "invalid input values")
    ELSE IF FormInt(req.width, 200) <= 0 \/ FormInt(req.height, 200) <= 0
    THEN ErrorResponse(400, "width and height must be positive")
    ELSE IF FormInt(req.width, 200) > 5000 \/ FormInt(req.height, 200) > 5000
    THEN ErrorResponse(400, "width and height cannot exceed 5000")
    ELSE IF ~index_MaxSizeInRange(FormFloat(req.maxSize, index_DefaultMaxSize))
    THEN ErrorResponse(400, "maximum file size must be between 1 and 10240")
    ELSE IF FormInt(req.quality, 80) < 1 \/ FormInt(req.quality, 80) > 100
    THEN ErrorResponse(400, "quality must be between 1 and 100")
    ELSE IF req.file.content = "garbage" THEN ErrorResponse(500, "unexpected")
    ELSE NoResponse

\* upload_and_process of api/index.py
index_upload_and_process(req, enc) ==
    IF index_EarlyResponse(req) # NoResponse THEN index_EarlyResponse(req)
    ELSE LET a == [target_width |-> FormInt(req.width, 200),
                   target_height |-> FormInt(req.height, 200),
                   max_size_kb |-> FormFloat(req.maxSize, index_DefaultMaxSize),
                   initial_quality |-> FormInt(req.quality, 80)]
             res == index_resize_and_compress_image(req.file.image,
                                                    req.file.content, a, enc)
         IN IF res = NoResult THEN ErrorResponse(500, "unexpected")
            ELSE [status |-> 200, success |-> TRUE, error |-> "",
                  image |-> res.bytes,
                  originalWidth |-> req.file.image.size[1],
                  originalHeight |-> req.file.image.size[2],
                  newWidth |-> a.target_width,
                  newHeight |-> a.target_height,
                  finalQuality |-> res.final_quality,
                  finalSize |-> res.final_size_kb,
                  adjusted |-> res.final_quality < a.initial_quality]

\* ------------------------------------------------------------------------
\* Properties
\* ------------------------------------------------------------------------
\* ceil(a / b) for b > 0
CeilDiv(a, b) == -((-a) \div b)

QualityValid(q) == q \in 1..100
\* the float round(n / 1024, 2) of a size held in hundredths
RoundedKbOfEncodedSize == [h \in { Round2(b) : b \in EncodedSizes } |-> FloatOf(h, 2)]
RoundedKb(h) ==
    IF h \in DOMAIN RoundedKbOfEncodedSize THEN RoundedKbOfEncodedSize[h]
    ELSE FloatOf(h, 2)
MaxSizeValid(m) ==
    FloatGreater(m, FloatZero) /\ FloatLessEq(m, MaxSizeLimitFloat)
InCore == pc \in {"encode", "loop"}
Returned == pc \in {"returned", "done"} /\ result # NoResult

\* C1: for initial_quality in [1,100] the backoff performs at most
\* ceil((initial_quality - 5) / 5) + 1 encodes, and an invocation that has
\* reached its first encode always goes on to return a result, also when the
\* ceiling cannot be met.
C1_EncodesBounded ==
    QualityValid(args.initial_quality)
        => encodes <= CeilDiv(args.initial_quality - 5, 5) + 1
C1_BackoffTerminates ==
    /\ []C1_EncodesBounded
    /\ (InCore /\ QualityValid(args.initial_quality)) ~> (pc = "returned")

\* the bound of C1 is reached: quality 100, ceiling never met, twenty encodes
C1_Witness ==
    /\ pc = "returned"
    /\ args.initial_quality = 100
    /\ encodes = 20
    /\ SizeExceeds(result.bytes.len, args.max_size_kb)


\* C2: for initial_quality in [1,100], every quality at which a re-encode is
\* performed is >= 5, and the returned final quality is in [5,100] or is the
\* initial quality with no reduction made.
C2_QualityFloorKept ==
    QualityValid(args.initial_quality) =>
        /\ encodes > 1 => current_quality >= QualityFloor
        /\ Returned =>
              \/ result.final_quality \in QualityFloor..100
              \/ result.final_quality = args.initial_quality /\ encodes = 1

\* C3 as claimed: for a valid request the result has final_quality <=
\* initial_quality, and its (rounded) final size is <= max_size_kb or its
\* final quality is exactly 5.
C3_CeilingMetOrQualityFive ==
    (Returned /\ QualityValid(args.initial_quality) /\ MaxSizeValid(args.max_size_kb))
        => /\ result.final_quality <= args.initial_quality
           /\ \/ FloatLessEq(RoundedKb(result.final_size_kb), args.max_size_kb)
              \/ result.final_quality = QualityFloor

\* C3 as amended: for a valid request the result has final_quality <=
\* initial_quality, and the encoded size (bytes / 1024, before rounding) is
\* <= max_size_kb or the final quality is at most 5, exactly 5 when
\* initial_quality is a multiple of 5.
C3_CeilingMetOrQualityAtFloor ==
    (Returned /\ QualityValid(args.initial_quality) /\ MaxSizeValid(args.max_size_kb))
        => /\ result.final_quality <= args.initial_quality
           /\ \/ ~SizeExceeds(result.bytes.len, args.max_size_kb)
              \/ /\ result.final_quality <= QualityFloor
                 /\ args.initial_quality % QualityStep = 0
                       => result.final_quality = QualityFloor

\* a valid request whose ceiling is not met: backed off from 80 to 5
C3_Witness ==
    /\ pc = "returned"
    /\ caller = "upload"
    /\ args.initial_quality = 80
    /\ MaxSizeValid(args.max_size_kb)
    /\ result.final_quality = QualityFloor
    /\ SizeExceeds(result.bytes.len, args.max_size_kb)

\* the quality after k reductions, and the size the encoder gives there
QualityAfter(k) == args.initial_quality - QualityStep * k
SizeAfter(k) == EncodedSize(encoder, QualityAfter(k))
MaxReductions == ((100 + QualityMargin) \div QualityStep) + 1

\* C4 as claimed: when max_size_kb is below the size at initial_quality, the
\* final quality is initial_quality - 5k for the smallest k >= 1 such that
\* the size at that quality is <= max_size_kb or that quality is 5.
C4_StopsAtSizeOrFive(k) ==
    ~SizeExceeds(SizeAfter(k), args.max_size_kb) \/ QualityAfter(k) = QualityFloor
C4_SmallestReductionToFive ==
    (Returned /\ QualityValid(args.initial_quality)
        /\ SizeExceeds(SizeAfter(0), args.max_size_kb))
        => \E k \in 1..MaxReductions :
              /\ result.final_quality = QualityAfter(k)
              /\ C4_StopsAtSizeOrFive(k)
              /\ \A j \in 1..(k - 1) : ~C4_StopsAtSizeOrFive(j)

\* C4 as amended: when max_size_kb is below the size at initial_quality, the
\* final quality is initial_quality - 5k for the smallest k >= 0 such that
\* the size at that quality is <= max_size_kb or that quality is at most 5.
C4_StopsAtSizeOrFloor(k) ==
    ~SizeExceeds(SizeAfter(k), args.max_size_kb) \/ QualityAfter(k) <= QualityFloor
C4_SmallestReductionToFloor ==
    (Returned /\ QualityValid(args.initial_quality)
        /\ SizeExceeds(SizeAfter(0), args.max_size_kb))
        => \E k \in 0..MaxReductions :
              /\ result.final_quality = QualityAfter(k)
              /\ C4_StopsAtSizeOrFloor(k)
              /\ \A j \in 0..(k - 1) : ~C4_StopsAtSizeOrFloor(j)

\* the ceiling is met after exactly two reductions, above the floor
C4_Witness ==
    /\ pc = "returned"
    /\ QualityValid(args.initial_quality)
    /\ SizeExceeds(SizeAfter(0), args.max_size_kb)
    /\ SizeExceeds(SizeAfter(1), args.max_size_kb)
    /\ ~SizeExceeds(SizeAfter(2), args.max_size_kb)
    /\ result.final_quality = QualityAfter(2)
    /\ result.final_quality > QualityFloor

\* C5: if the size encoded at initial_quality is already <= max_size_kb, one
\* encode is performed, the returned bytes are that first encoding and the
\* final quality is initial_quality.
C5_StopsAtOnce ==
    (Returned /\ ~SizeExceeds(SizeAfter(0), args.max_size_kb))
        => /\ encodes = 1
           /\ result.bytes = Save(encoder, resized_image, args.initial_quality)
           /\ result.final_quality = args.initial_quality

\* an upload at quality 80 whose first encoding fits the ceiling
C5_Witness ==
    /\ pc = "returned"
    /\ caller = "upload"
    /\ args.initial_quality = 80
    /\ ~SizeExceeds(SizeAfter(0), args.max_size_kb)
    /\ result.bytes.len > 0
    /\ encodes = 1


\* the source image carries transparency: an alpha band, or a palette with
\* transparent entries
HasAlpha(img) == img.mode \in {"RGBA", "LA"} \/ (img.mode = "P" /\ img.alpha < 255)
Normalized == pc \in {"encode", "loop", "returned", "done"} /\ resized_image # NoImage

\* C6: whatever the mode, an image with an alpha channel is composited onto
\* white, so that a fully transparent pixel becomes pure white and a fully
\* opaque one keeps its colour; the direct conversion is applied only to modes
\* without alpha and gives three-channel colour; an RGB image is unchanged.
C6_AlphaCompositedOnWhite ==
    Normalized =>
        /\ resized_image.mode = "RGB"
        /\ (HasAlpha(image) /\ image.alpha = 0) => resized_image.color = White
        /\ (HasAlpha(image) /\ image.alpha = 255) => resized_image.color = image.color
        /\ ~HasAlpha(image) => resized_image.color = image.color

\* the requests of C7: an allowed, decodable image file and four numbers
C7_AllowedNames == { <<"a",".","P","N","G">>, <<"a",".","b",".","j","p","g">> }
C7_Applies ==
    /\ caller = "upload"
    /\ ~request.too_large
    /\ request.file.present
    /\ request.file.filename \in C7_AllowedNames
    /\ request.file.content # "garbage"
    /\ ParamsParse(request)
C7_OutOfRange(w, h, m, q) ==
    \/ w < 1 \/ w > 5000
    \/ h < 1 \/ h > 5000
    \/ FloatLessEq(m, FloatZero) \/ FloatGreater(m, MaxSizeLimitFloat)
    \/ q < 1 \/ q > 100

\* C7: an /upload with an allowed image file and a width or height outside
\* [1,5000], a maxSize <= 0 or > 10240, or a quality outside [1,100] is
\* answered 400 with success=false and never invokes the core; with all four
\* inside their ranges, boundaries included, the core is invoked once with
\* exactly those values.
C7_ValidationGate ==
    C7_Applies =>
        LET w == ParsedWidth(request)
            h == ParsedHeight(request)
            m == ParsedMaxSize(request)
            q == ParsedQuality(request)
        IN /\ IF C7_OutOfRange(w, h, m, q)
              THEN /\ pc = "done"
                   /\ core_calls = 0
                   /\ response.status = 400
                   /\ ~response.success
              ELSE /\ core_calls = 1
                   /\ args = [target_width |-> w, target_height |-> h,
                              max_size_kb |-> m, initial_quality |-> q]
           /\ request.maxSize = Field(<<"1","0","2","4","0",".","0","1">>)
                 => response.status = 400
           /\ request.width = Field(<<"0">>) => response.status = 400
           /\ (request.width = Field(<<"5","0","0","0">>) /\ core_calls = 1)
                 => args.target_width = 5000
           /\ (request.maxSize = Field(<<"1","0","2","4","0">>) /\ core_calls = 1)
                 => args.max_size_kb = MaxSizeLimitFloat
           /\ (request.quality = Field(<<"1","0","0">>) /\ core_calls = 1)
                 => args.initial_quality = 100

\* a request on the boundaries width=5000, maxSize=10240, quality=1 has
\* reached the core
C7_Witness ==
    /\ C7_Applies
    /\ request.width = Field(<<"5","0","0","0">>)
    /\ request.maxSize = Field(<<"1","0","2","4","0">>)
    /\ request.quality = Field(<<"1">>)
    /\ pc = "resize"
    /\ core_calls = 1
    /\ args.target_width = 5000 /\ args.max_size_kb = MaxSizeLimitFloat
    /\ args.initial_quality = 1

\* a direct invocation with initial_quality or max_size_kb out of range
C8_OutOfRange ==
    /\ caller = "direct"
    /\ pc # "idle"
    /\ ~QualityValid(args.initial_quality) \/ ~MaxSizeValid(args.max_size_kb)

\* C8 as claimed: a direct invocation with initial_quality outside [1,100] or
\* max_size_kb outside (0,10240] is rejected: it returns no result and makes
\* no backoff.
C8_DirectCallRejected ==
    C8_OutOfRange => pc # "returned" /\ result = NoResult /\ encodes <= 1

\* C8 as amended: a direct invocation with initial_quality outside [1,100] or
\* max_size_kb outside (0,10240] is not rejected: the core fails only on a
\* degenerate target size; otherwise it encodes at initial_quality, makes the
\* usual backoff and returns a result.
C8_OnlyDegenerateSizeRaises ==
    C8_OutOfRange =>
        /\ pc = "raised" => (args.target_width <= 0 \/ args.target_height <= 0)
        /\ pc = "returned" =>
              /\ result.bytes = output_buffer
              /\ result.bytes.quality = result.final_quality
              /\ result.final_quality = QualityAfter(encodes - 1)
              /\ SizeExceeds(result.bytes.len, args.max_size_kb)
                    => result.final_quality <= QualityFloor
C8_DirectCallNotRejected ==
    /\ []C8_OnlyDegenerateSizeRaises
    /\ (C8_OutOfRange /\ pc = "resize"
          /\ args.target_width > 0 /\ args.target_height > 0)
          ~> (pc = "returned")

\* quality 101 with a negative ceiling: twenty reductions, result at quality 1
C8_Witness ==
    /\ C8_OutOfRange
    /\ pc = "returned"
    /\ args.initial_quality = 101
    /\ FloatLess(args.max_size_kb, FloatZero)
    /\ encodes = 21
    /\ result.final_quality = 1

\* the failures of an /upload
C9_TooLarge == request.too_large
C9_Invalid ==
    \/ ~request.file.present
    \/ request.file.filename = <<>>
    \/ ~allowed_file(request.file.filename)
    \/ ~ParamsParse(request)
    \/ C7_OutOfRange(ParsedWidth(request), ParsedHeight(request),
                     ParsedMaxSize(request), ParsedQuality(request))
C9_Undecodable == request.file.content \in {"garbage", "truncated"}
C9_Failure(status) ==
    /\ response.status = status
    /\ ~response.success
    /\ response.image = NoBuffer
    /\ result = NoResult
C9_Answered == caller = "upload" /\ pc = "done"

\* C9 as claimed: every validation failure, an upload over 16 MiB included,
\* is answered 400; every failure after validation is answered 500; no
\* failure yields a success body or a partial result.
\* The handler answers the upload over 16 MiB with 500: request.files raises
\* RequestEntityTooLarge inside the try block and the catch-all answers it,
\* so file_too_large, registered for 413, is never reached from this view.
C9_ValidationIs400 ==
    C9_Answered =>
        IF C9_TooLarge \/ C9_Invalid THEN C9_Failure(400)
        ELSE IF C9_Undecodable THEN C9_Failure(500)
        ELSE response.status = 200 /\ response.success

\* C10: the image the core encodes has exactly the requested width and
\* height, whatever the size of the source, and the newWidth and newHeight of
\* a successful /upload are those dimensions.
C10_ExactDimensions ==
    /\ (Normalized /\ args.target_width \in 1..5000 /\ args.target_height \in 1..5000)
          => resized_image.size = <<args.target_width, args.target_height>>
    /\ encodes >= 1 =>
          output_buffer.src.size = <<args.target_width, args.target_height>>
    /\ response.success =>
          /\ response.image.src.size = <<response.newWidth, response.newHeight>>
          /\ response.newWidth = args.target_width
          /\ response.newHeight = args.target_height
          /\ request.width = Field(<<"5","0","0","0">>) => response.newWidth = 5000
          /\ request.height = Field(<<"1">>) => response.newHeight = 1

\* a 4000x3000 source answered as 5000x1
C10_Witness ==
    /\ pc = "done"
    /\ response.success
    /\ response.originalWidth = 4000 /\ response.originalHeight = 3000
    /\ response.newWidth = 5000 /\ response.newHeight = 1
    /\ response.image.src.size = <<5000, 1>>


\* C12: every encode, the initial one and each re-encode, takes the normalized
\* image of STEP 2 as its input, into a fresh buffer, with optimize on; the
\* normalized image is unchanged by every loop iteration, and no encode takes
\* the output of a previous encode as its input.
C12_EncodedFromNormalized ==
    (encodes >= 1 /\ pc \in {"loop", "returned", "done"}) =>
        /\ output_buffer.src =
              Normalize(Resize(image, args.target_width, args.target_height))
        /\ output_buffer.src = resized_image
        /\ output_buffer.optimize
        /\ output_buffer.len = EncodedSize(encoder, output_buffer.quality)
C12_NormalizedKept ==
    (pc = "loop") =>
        /\ resized_image' = resized_image
        /\ image' = image
        /\ encodes' > encodes =>
              /\ output_buffer'.src = resized_image
              /\ output_buffer'.quality # output_buffer.quality
C12_EncodesFromNormalizedImage ==
    /\ []C12_EncodedFromNormalized
    /\ [][C12_NormalizedKept]_vars

\* the second re-encode of a composited RGBA image
C12_Witness ==
    /\ pc = "loop"
    /\ encodes = 3
    /\ image.mode = "RGBA"
    /\ image.color = Orange /\ image.alpha = 255
    /\ resized_image.mode = "RGB"
    /\ output_buffer.src = resized_image
    /\ output_buffer.quality = args.initial_quality - 2 * QualityStep

\* C13: the message of a successful /upload notes a quality reduction if and
\* only if the core reduced the quality, which is if and only if finalQuality
\* is below the requested quality; without a reduction finalQuality is the
\* requested quality.
C13_NoteIffReduced ==
    (caller = "upload" /\ response.success) =>
        /\ response.adjusted <=> encodes > 1
        /\ response.adjusted <=> response.finalQuality < ParsedQuality(request)
        /\ ~response.adjusted => response.finalQuality = ParsedQuality(request)
        /\ request.quality = Absent =>
              (response.adjusted <=> response.finalQuality < 80)

\* a default-quality upload answered with a note: 80 was lowered
C13_Witness ==
    /\ pc = "done"
    /\ response.success
    /\ request.quality = Absent
    /\ response.adjusted
    /\ response.finalQuality < 80
    /\ encodes > 1

\* C14: at the loop head and at return, after n re-encodes, current_quality is
\* initial_quality - 5n, output_buffer is the encoding of the normalized image
\* at current_quality and current_size_kb is its length; the returned bytes,
\* final quality and final size describe one and the same encoding.
C14_LoopInvariant ==
    /\ pc \in {"loop", "returned"} =>
          /\ current_quality = args.initial_quality - QualityStep * (encodes - 1)
          /\ output_buffer.quality = current_quality
          /\ output_buffer.src = resized_image
          /\ output_buffer.len = EncodedSize(encoder, current_quality)
          /\ current_size_kb = output_buffer.len
    /\ Returned =>
          /\ result.bytes.quality = result.final_quality
          /\ result.final_size_kb = Round2(result.bytes.len)
          /\ result.bytes.len = EncodedSize(encoder, result.final_quality)
    /\ pc = "returned" => result.bytes = output_buffer

\* at the loop head after three re-encodes, with a fourth to come
C14_Witness ==
    /\ pc = "loop"
    /\ encodes = 4
    /\ current_quality = args.initial_quality - 3 * QualityStep
    /\ LoopCondition(current_size_kb, args.max_size_kb, current_quality)


\* C15: for every /upload request the handler of api/index.py answers with
\* the status and the success flag of the handler of app.py, and on success
\* with the same image bytes, finalQuality and finalSize.
C15_EntrypointsAgree ==
    (caller = "upload" /\ pc = "done") =>
        LET other == index_upload_and_process(request, encoder)
        IN /\ other.status = response.status
           /\ other.success = response.success
           /\ response.success =>
                 /\ other.image = response.image
                 /\ other.finalQuality = response.finalQuality
                 /\ other.finalSize = response.finalSize

\* a maxSize of exactly 10240 passes the two checks of app.py and the single
\* check of api/index.py, and the quality is backed off
C15_Witness ==
    /\ caller = "upload" /\ pc = "done"
    /\ request.maxSize = Field(<<"1","0","2","4","0">>)
    /\ response.success
    /\ index_upload_and_process(request, encoder).success
    /\ index_upload_and_process(request, encoder).image = response.image
    /\ response.adjusted


\* what one invocation returns when it runs alone, from its arguments only
RECURSIVE AloneQuality(_, _, _)
AloneQuality(enc, max_size_kb, q) ==
    IF SizeExceeds(EncodedSize(enc, q), max_size_kb) /\ q > QualityFloor
    THEN AloneQuality(enc, max_size_kb, q - QualityStep)
    ELSE q
Alone(img, a, enc) ==
    LET q == AloneQuality(enc, a.max_size_kb, a.initial_quality)
        normalized == Normalize(Resize(img, a.target_width, a.target_height))
    IN [bytes |-> Save(enc, normalized, q),
        final_quality |-> q,
        final_size_kb |-> Round2(EncodedSize(enc, q))]

\* the invocation of the handler returns what Alone says
AloneIsSequential ==
    pc = "returned" => result = Alone(image, args, encoder)

\* C11: invocations that run in parallel on separate inputs, under any
\* interleaving of their steps, each return the bytes, final quality and
\* final size they return when run alone, and an invocation starts with none
\* of the locals or the result of an earlier one.
C11_ParallelAsAlone ==
    \A p \in Procs :
        /\ procs[p].pc = "returned" =>
              procs[p].result =
                  Alone(procs[p].image, procs[p].args, procs[p].encoder)
        /\ procs[p].pc = "resize" =>
              /\ procs[p].resized_image = NoImage
              /\ procs[p].output_buffer = NoBuffer
              /\ procs[p].current_size_kb = 0
              /\ procs[p].current_quality = 0
              /\ procs[p].result = NoResult

\* a second call has returned its backed-off result while another invocation,
\* on another image, is in the middle of its own backoff
C11_Witness ==
    \E p, r \in Procs :
        /\ p # r
        /\ procs[p].pc = "returned" /\ procs[p].calls = 2
        /\ procs[p].result.final_quality < procs[p].args.initial_quality
        /\ procs[r].pc = "loop"
        /\ procs[r].image # procs[p].image
        /\ procs[r].current_quality < procs[r].args.initial_quality
        /\ LoopCondition(procs[r].current_size_kb, procs[r].args.max_size_kb,
                         procs[r].current_quality)

====
